---- MODULE Spec2Model ----
(***************************************************************************)
(* p-adic integers as digit factories (src/integer.py).                    *)
(*                                                                         *)
(* A generator object is a cell of the heap `gens`; an Integer_P_Adic is   *)
(* an immutable record holding its base and what its digit_factory closes  *)
(* over.  next(h, g) is Python's next() on generator g in heap h: it       *)
(* returns the heap after the call and what the call produced: a digit,    *)
(* END (StopIteration) or ERR (any other exception).                       *)
(***************************************************************************)
EXTENDS Integers, Sequences, FiniteSets, TLC

VARIABLES vals, made, gens, streams, looks, ret

vars == <<vals, made, gens, streams, looks, ret>>

(***************************************************************************)
(* Bounds of the model.                                                    *)
(***************************************************************************)
MaxDerived == 2
MaxStreams == 2
MaxPull == 2
MaxLooks == 1

(***************************************************************************)
(* Program constants.                                                      *)
(***************************************************************************)
DEFAULT_MAX_P_GITS == 20
NE_NUM_DIGITS == 1000

(***************************************************************************)
(* Outcomes of next() that are not digits, and unbound names.              *)
(***************************************************************************)
END == -1
ERR == -2
Unbound == -3

IsDigit(o) == o >= 0

(***************************************************************************)
(* random.Random(seed).randint(0, p-1), i-th draw: a deterministic         *)
(* function of (seed, i).                                                  *)
(***************************************************************************)
rng_randint(seed, i, p) == ((seed * 31 + 7) * (i + 1) * (i + 3) + seed + i * i) % p

(***************************************************************************)
(* Generator cells.                                                        *)
(***************************************************************************)
Gen(kind, p, n, r, xg, yg) ==
    [kind |-> kind, st |-> "live", p |-> p, n |-> n, r |-> r,
     xg |-> xg, yg |-> yg, xs |-> <<>>, ys |-> <<>>]

Yield(h, o) == [h |-> h, out |-> o]

\* the generator returns or an exception leaves it: it is finished for good
Finish(h, g, o) == [h |-> [h EXCEPT ![g].st = "done"], out |-> o]

RECURSIVE next(_, _)
RECURSIVE right_shift_gen(_, _)

\* p_adic_from_integer.gen
from_integer_gen(h, g) ==
    IF h[g].r > 0
    THEN Yield([h EXCEPT ![g].r = h[g].r \div h[g].p], h[g].r % h[g].p)
    ELSE Finish(h, g, END)

\* p_adic_zero.gen, p_adic_one.gen: one digit, then the end
const_gen(h, g) ==
    IF h[g].r = 0
    THEN Yield([h EXCEPT ![g].r = 1], h[g].n)
    ELSE Finish(h, g, END)

\* stable_p_adic.gen
stable_gen(h, g) ==
    Yield([h EXCEPT ![g].r = h[g].r + 1], rng_randint(h[g].n, h[g].r, h[g].p))

\* `for x in xg: yield x`, a being what next(xg) gave
left_shift_got(g, a) ==
    IF IsDigit(a.out) THEN a ELSE Finish(a.h, g, a.out)

\* __lshift__.gen
left_shift_gen(h, g) ==
    IF h[g].r < h[g].n
    THEN Yield([h EXCEPT ![g].r = h[g].r + 1], 0)
    ELSE left_shift_got(g, next(h, h[g].xg))

\* the body of `for x in xg` in __rshift__.gen and the `yield 0` after it,
\* a being what next(xg) gave
right_shift_got(g, a) ==
    IF a.out = END THEN Finish(a.h, g, 0)
    ELSE IF a.out = ERR THEN Finish(a.h, g, ERR)
    ELSE IF a.h[g].r > 0 THEN right_shift_gen([a.h EXCEPT ![g].r = a.h[g].r - 1], g)
    ELSE a

\* __rshift__.gen
right_shift_gen(h, g) == right_shift_got(g, next(h, h[g].xg))

\* zip_longest after both iterators were asked
zip_second(a, b) ==
    IF b.out = ERR THEN [h |-> b.h, out |-> ERR, dx |-> 0, dy |-> 0]
    ELSE IF a.out = END /\ b.out = END
    THEN [h |-> b.h, out |-> END, dx |-> 0, dy |-> 0]
    ELSE [h |-> b.h, out |-> 0,
          dx |-> IF a.out = END THEN 0 ELSE a.out,
          dy |-> IF b.out = END THEN 0 ELSE b.out]

\* zip_longest after the first iterator was asked
zip_first(yg, a) ==
    IF a.out = ERR THEN [h |-> a.h, out |-> ERR, dx |-> 0, dy |-> 0]
    ELSE zip_second(a, next(a.h, yg))

\* itertools.zip_longest(xg, yg, fillvalue=0): one tuple (out = 0), END or ERR
zip_longest(h, xg, yg) == zip_first(yg, next(h, xg))

\* the body of the loop of __add__.gen, z being what zip_longest gave.
\* `carry` is assigned in gen, so it is a local of gen, and the carry of
\* sum_factory is another variable: the first read finds the local unbound
sum_got(g, z) ==
    IF z.out # 0 THEN Finish(z.h, g, z.out)
    ELSE IF z.h[g].r = Unbound THEN Finish(z.h, g, ERR)
    ELSE Yield([z.h EXCEPT ![g].r = (z.dx + z.dy + z.h[g].r) \div z.h[g].p],
               (z.dx + z.dy + z.h[g].r) % z.h[g].p)

\* __add__.sum_factory.gen
sum_gen(h, g) == sum_got(g, zip_longest(h, h[g].xg, h[g].yg))

\* the body of the loop of __mul__.prod_factory.gen
prod_got(g, a) ==
    IF ~IsDigit(a.out) THEN Finish(a.h, g, a.out)
    ELSE Yield([a.h EXCEPT ![g].r = (a.h[g].r + a.out * a.h[g].n) \div a.h[g].p],
               (a.h[g].r + a.out * a.h[g].n) % a.h[g].p)

\* __mul__.prod_factory.gen
prod_gen(h, g) == prod_got(g, next(h, h[g].xg))

\* partial_sum: the sum of x_digits[l] * y_digits[k - l] over l in 0..k
RECURSIVE Convolve(_, _, _)
Convolve(xs, ys, l) ==
    IF l = 0 THEN 0
    ELSE xs[l] * ys[Len(ys) - l + 1] + Convolve(xs, ys, l - 1)

\* t_k, d_k and the new carry, xs and ys being the digits buffered
product_digit(h, g, xs, ys) ==
    Yield([h EXCEPT ![g].r = (h[g].r + Convolve(xs, ys, Len(xs))) \div h[g].p,
                    ![g].xs = xs, ![g].ys = ys],
          (h[g].r + Convolve(xs, ys, Len(xs))) % h[g].p)

\* y_digits.append(next(yg)), or 0 at StopIteration
product_y(g, xs, b) ==
    IF b.out = ERR THEN Finish(b.h, g, ERR)
    ELSE product_digit(b.h, g, xs,
                       Append(b.h[g].ys, IF b.out = END THEN 0 ELSE b.out))

\* x_digits.append(next(xg)), or 0 at StopIteration
product_x(g, a) ==
    IF a.out = ERR THEN Finish(a.h, g, ERR)
    ELSE IF a.h[g].yg = Unbound THEN Finish(a.h, g, ERR)
    ELSE product_y(g, Append(a.h[g].xs, IF a.out = END THEN 0 ELSE a.out),
                   next(a.h, a.h[g].yg))

\* __mul__.product_factory.gen: xg and yg are names no statement of this
\* branch binds, and next(xg) raises NameError
product_gen(h, g) ==
    IF h[g].xg = Unbound THEN Finish(h, g, ERR)
    ELSE product_x(g, next(h, h[g].xg))

\* the body of the loop of __invert__.gen
invert_got(g, a) ==
    IF IsDigit(a.out) THEN Yield(a.h, a.h[g].p - a.out - 1)
    ELSE Finish(a.h, g, a.out)

\* __invert__.gen
invert_gen(h, g) == invert_got(g, next(h, h[g].xg))

next(h, g) ==
    IF h[g].st = "done" THEN Yield(h, END)
    ELSE CASE h[g].kind = "fromInt" -> from_integer_gen(h, g)
           [] h[g].kind = "const"   -> const_gen(h, g)
           [] h[g].kind = "stable"  -> stable_gen(h, g)
           [] h[g].kind = "lshift"  -> left_shift_gen(h, g)
           [] h[g].kind = "rshift"  -> right_shift_gen(h, g)
           [] h[g].kind = "sum"     -> sum_gen(h, g)
           [] h[g].kind = "prod"    -> prod_gen(h, g)
           [] h[g].kind = "product" -> product_gen(h, g)
           [] h[g].kind = "invert"  -> invert_gen(h, g)

(***************************************************************************)
(* Integer_P_Adic objects and their factories.                             *)
(***************************************************************************)
Integer_P_Adic(p, kind, n, xg, yg, parent) ==
    [p |-> p, kind |-> kind, n |-> n, xg |-> xg, yg |-> yg, parent |-> parent]

stable_p_adic(p, seed) == Integer_P_Adic(p, "stable", seed, 0, 0, <<>>)
p_adic_zero(p) == Integer_P_Adic(p, "const", 0, 0, 0, <<>>)
p_adic_one(p) == Integer_P_Adic(p, "const", 1, 0, 0, <<>>)
p_adic_from_integer(n, p) == Integer_P_Adic(p, "fromInt", n, 0, 0, <<>>)

New(h, s) == [h |-> Append(h, s), g |-> Len(h) + 1]

\* __invert__.digit_factory, b being the fresh generator of the operand
invert_factory(p, b) == New(b.h, Gen("invert", p, 0, 0, b.g, 0))

RECURSIVE digit_factory(_, _)
digit_factory(h, v) ==
    CASE v.kind = "fromInt" -> New(h, Gen("fromInt", v.p, 0, v.n, 0, 0))
      [] v.kind = "const"   -> New(h, Gen("const", v.p, v.n, 0, 0, 0))
      [] v.kind = "stable"  -> New(h, Gen("stable", v.p, v.n, 0, 0, 0))
      [] v.kind = "lshift"  -> New(h, Gen("lshift", v.p, v.n, 0, v.xg, 0))
      [] v.kind = "rshift"  -> New(h, Gen("rshift", v.p, v.n, v.n, v.xg, 0))
      [] v.kind = "sum"     -> New(h, Gen("sum", v.p, 0, Unbound, v.xg, v.yg))
      [] v.kind = "prod"    -> New(h, Gen("prod", v.p, v.n, 0, v.xg, 0))
      [] v.kind = "product" -> New(h, Gen("product", v.p, 0, 0, Unbound, Unbound))
      [] v.kind = "invert"  -> invert_factory(v.p, digit_factory(h, v.parent[1]))

(***************************************************************************)
(* Operators.  Each returns the heap after the call and either the new     *)
(* object (v = <<object>>) or the error it raised.                         *)
(***************************************************************************)
Ok(h, v) == [h |-> h, ok |-> TRUE, v |-> <<v>>, err |-> ""]
Raise(h, e) == [h |-> h, ok |-> FALSE, v |-> <<>>, err |-> e]

IntOperand(c) == [t |-> "int", c |-> c, v |-> <<>>]
PAdicOperand(v) == [t |-> "padic", c |-> 0, v |-> <<v>>]
OtherOperand == [t |-> "other", c |-> 0, v |-> <<>>]

\* return Integer_P_Adic(p, sum_factory), a and b being xg and yg
sum_of(p, a, b) == Ok(b.h, Integer_P_Adic(p, "sum", 0, a.g, b.g, <<>>))

\* xg = self.digit_factory(); yg = other.digit_factory()
sum_over(p, y, a) == sum_of(p, a, digit_factory(a.h, y))

\* __add__ without its test of the bases
add_unchecked(h, x, y) == sum_over(x.p, y, digit_factory(h, x))

\* Integer_P_Adic.__add__
add(h, x, y) ==
    IF x.p # y.p THEN Raise(h, "MismatchedBase")
    ELSE sum_over(x.p, y, digit_factory(h, x))

\* Integer_P_Adic.__invert__
invert(x) == Integer_P_Adic(x.p, "invert", 0, 0, 0, <<x>>)

\* Integer_P_Adic.__neg__
neg(h, x) == add(h, invert(x), p_adic_one(x.p))

\* return Integer_P_Adic(self.p, prod_factory), a being xg
prod_of(p, c, a) == Ok(a.h, Integer_P_Adic(p, "prod", c, a.g, 0, <<>>))

RECURSIVE mul(_, _, _)

\* (-self) * (-other), m being what -self returned
mul_negated(m, c) == mul(m.h, m.v[1], IntOperand(-c))

\* Integer_P_Adic.__mul__
mul(h, x, other) ==
    IF other.t = "int"
    THEN IF other.c = 0 THEN Ok(h, p_adic_zero(x.p))
         ELSE IF other.c < 0 THEN mul_negated(neg(h, x), other.c)
         ELSE IF other.c > x.p
              THEN mul(h, x, PAdicOperand(p_adic_from_integer(other.c, x.p)))
         ELSE prod_of(x.p, other.c, digit_factory(h, x))
    ELSE IF other.t = "padic"
    THEN IF x.p # other.v[1].p THEN Raise(h, "MismatchedBase")
         ELSE Ok(h, Integer_P_Adic(x.p, "product", 0, 0, 0, <<>>))
    ELSE Raise(h, "UnsupportedOperand")

\* return Integer_P_Adic(p, left_shift_factory / right_shift_factory)
shift_of(p, kind, n, a) == Ok(a.h, Integer_P_Adic(p, kind, n, a.g, 0, <<>>))

RECURSIVE lshift(_, _, _)
RECURSIVE rshift(_, _, _)

\* Integer_P_Adic.__lshift__
lshift(h, x, n) ==
    IF n < 0 THEN rshift(h, x, -n)
    ELSE IF n = 0 THEN Ok(h, x)
    ELSE shift_of(x.p, "lshift", n, digit_factory(h, x))

\* Integer_P_Adic.__rshift__
rshift(h, x, n) ==
    IF n < 0 THEN lshift(h, x, -n)
    ELSE shift_of(x.p, "rshift", n, digit_factory(h, x))

(***************************************************************************)
(* The consumers.  The generators they create are dropped when they        *)
(* return; what they pulled from generators that existed before stays      *)
(* pulled.                                                                 *)
(***************************************************************************)
Keep(h0, h) == SubSeq(h, 1, Len(h0))

\* one turn of the loop of p_adic_equal, z being what next(combined) gave
equal_got(z) ==
    IF z.out # 0 THEN [h |-> z.h, done |-> TRUE, res |-> TRUE]
    ELSE IF z.dx # z.dy THEN [h |-> z.h, done |-> TRUE, res |-> FALSE]
    ELSE [h |-> z.h, done |-> FALSE, res |-> TRUE]

\* n turns of the loop, unless one of them returns
RECURSIVE EqualLoop(_, _, _, _)
EqualLoop(c, xg, yg, n) ==
    IF c.done \/ n = 0 THEN c
    ELSE IF n = 1 THEN equal_got(zip_longest(c.h, xg, yg))
    ELSE EqualLoop(EqualLoop(c, xg, yg, n \div 2), xg, yg, n - n \div 2)

equal_result(h, c) == [h |-> Keep(h, c.h), res |-> c.res]

\* the loop over the streams a (xg) and b (yg)
equal_streams(h, a, b, num_digits) ==
    equal_result(h, EqualLoop([h |-> b.h, done |-> FALSE, res |-> TRUE],
                              a.g, b.g, num_digits))

\* yg = y.digit_factory()
equal_second(h, y, a, num_digits) ==
    equal_streams(h, a, digit_factory(a.h, y), num_digits)

p_adic_equal(h, x, y, num_digits) ==
    equal_second(h, y, digit_factory(h, x), num_digits)

\* Integer_P_Adic.__eq__
eq(h, x, y) == p_adic_equal(h, x, y, DEFAULT_MAX_P_GITS)

not_result(e) == [h |-> e.h, res |-> ~e.res]

\* Integer_P_Adic.__ne__
ne(h, x, y) == not_result(p_adic_equal(h, x, y, NE_NUM_DIGITS))

\* "".join(digits[::-1])
RECURSIVE Join(_)
Join(ds) == IF ds = <<>> THEN "" ELSE Join(Tail(ds)) \o ToString(Head(ds))

RECURSIVE StrLoop(_, _)

\* one turn of the loop of __str__, a being what the stream gave; c.n is
\* the counter of enumerate
str_got(c, g, a) ==
    IF a.out = END THEN [c EXCEPT !.h = a.h]
    ELSE IF a.out = ERR THEN [c EXCEPT !.h = a.h, !.prefix = ""]
    ELSE IF c.n > DEFAULT_MAX_P_GITS
         THEN [c EXCEPT !.h = a.h, !.prefix = "...", !.pulled = c.pulled + 1]
    ELSE StrLoop([c EXCEPT !.h = a.h, !.n = c.n + 1, !.pulled = c.pulled + 1,
                           !.digits = Append(c.digits, a.out)], g)

StrLoop(c, g) == str_got(c, g, next(c.h, g))

str_result(h, p, c) ==
    [h |-> Keep(h, c.h), prefix |-> c.prefix, digits |-> c.digits,
     pulled |-> c.pulled,
     text |-> c.prefix \o Join(c.digits) \o " (base " \o ToString(p) \o ")"]

str_stream(h, p, a) ==
    str_result(h, p, StrLoop([h |-> a.h, n |-> 0, pulled |-> 0, prefix |-> "",
                              digits |-> <<>>], a.g))

\* Integer_P_Adic.__str__
str(h, x) == str_stream(h, x.p, digit_factory(h, x))

(***************************************************************************)
(* The client of the library.  It holds values (vals; made records how     *)
(* each was obtained), builds an expression from left to right (each       *)
(* operator is called on the value obtained last, with any value held as   *)
(* the other operand), and then observes the value obtained last: either   *)
(* it takes streams from its factory and pulls their digits, or it         *)
(* compares and prints it.                                                 *)
(* ret is what the last call returned or raised.                           *)
(***************************************************************************)
Inputs ==
    { p_adic_from_integer(5, 3), p_adic_from_integer(3, 5),
      p_adic_from_integer(2^20, 2), stable_p_adic(3, 1), p_adic_zero(3) }

Scalars == {-1, 0, 4}
Shifts == {-2, 0, 2}

Made(op, a, b, n) == [op |-> op, a |-> a, b |-> b, n |-> n]

Ret(op, a, b, n) ==
    [op |-> op, a |-> a, b |-> b, n |-> n, ok |-> TRUE, err |-> "",
     res |-> FALSE, text |-> "", prefix |-> "", digits |-> <<>>, pulled |-> 0]

\* the client starts with the values y and x
Start(y, x) ==
    /\ vals = <<y, x>>
    /\ made = <<Made("input", 0, 0, 0), Made("input", 0, 0, 0)>>
    /\ gens = <<>>
    /\ streams = <<>>
    /\ looks = 0
    /\ ret = Ret("init", 0, 0, 0)

Init == \E y \in Inputs, x \in Inputs : Start(y, x)

\* values of two bases, for what the operators do when the bases differ
MixedInputs == { p_adic_one(3), p_adic_from_integer(3, 5) }

InitMixed == \E y \in MixedInputs : Start(y, p_adic_from_integer(3, 5))

Held == 1..Len(vals)
Self == Len(vals)
Room == looks = 0 /\ streams = <<>> /\ Len(vals) < 2 + MaxDerived

\* the client receives what an operator returned or raised
Receive(r, op, b, n) ==
    /\ gens' = r.h
    /\ vals' = IF r.ok THEN Append(vals, r.v[1]) ELSE vals
    /\ made' = IF r.ok THEN Append(made, Made(op, Self, b, n)) ELSE made
    /\ ret' = [Ret(op, Self, b, n) EXCEPT !.ok = r.ok, !.err = r.err]
    /\ UNCHANGED <<streams, looks>>

Add(j) ==
    /\ Room
    /\ Receive(add(gens, vals[Self], vals[j]), "add", j, 0)

Mul(j) ==
    /\ Room
    /\ Receive(mul(gens, vals[Self], PAdicOperand(vals[j])), "mul", j, 0)

MulScalar(c) ==
    /\ Room
    /\ Receive(mul(gens, vals[Self], IntOperand(c)), "mulscalar", 0, c)

MulOther ==
    /\ Room
    /\ Receive(mul(gens, vals[Self], OtherOperand), "mulother", 0, 0)

Invert ==
    /\ Room
    /\ Receive(Ok(gens, invert(vals[Self])), "invert", 0, 0)

Neg ==
    /\ Room
    /\ Receive(neg(gens, vals[Self]), "neg", 0, 0)

LShift(n) ==
    /\ Room
    /\ Receive(lshift(gens, vals[Self], n), "lshift", 0, n)

RShift(n) ==
    /\ Room
    /\ Receive(rshift(gens, vals[Self], n), "rshift", 0, n)

\* the client calls digit_factory() and keeps the stream
Produced(f) ==
    /\ gens' = f.h
    /\ streams' = Append(streams, [v |-> Self, g |-> f.g, out |-> <<>>])
    /\ ret' = Ret("produce", Self, 0, 0)
    /\ UNCHANGED <<vals, made, looks>>

Produce ==
    /\ looks = 0
    /\ Len(streams) < MaxStreams
    /\ Produced(digit_factory(gens, vals[Self]))

\* the stream has not ended or failed under the client's eyes
Live(out) == IF out = <<>> THEN TRUE ELSE IsDigit(out[Len(out)])

\* the client calls next() on a stream it keeps
Pulled(k, a) ==
    /\ gens' = a.h
    /\ streams' = [streams EXCEPT ![k].out = Append(@, a.out)]
    /\ ret' = Ret("pull", k, 0, 0)
    /\ UNCHANGED <<vals, made, looks>>

Pull(k) ==
    /\ looks = 0
    /\ Len(streams[k].out) < MaxPull
    /\ Live(streams[k].out)
    /\ Pulled(k, next(gens, streams[k].g))

\* the client receives the answer of a comparison or the text of a print
Looked(e, r) ==
    /\ gens' = e.h
    /\ ret' = r
    /\ looks' = looks + 1
    /\ UNCHANGED <<vals, made, streams>>

Compared(e, op, j, n) == Looked(e, [Ret(op, Self, j, n) EXCEPT !.res = e.res])

Printed(t) ==
    Looked(t, [Ret("str", Self, 0, 0) EXCEPT !.text = t.text, !.prefix = t.prefix,
                                             !.digits = t.digits, !.pulled = t.pulled])

Eq(j) ==
    /\ looks < MaxLooks
    /\ streams = <<>>
    /\ Compared(eq(gens, vals[Self], vals[j]), "eq", j, DEFAULT_MAX_P_GITS)

Ne(j) ==
    /\ looks < MaxLooks
    /\ streams = <<>>
    /\ Compared(ne(gens, vals[Self], vals[j]), "ne", j, NE_NUM_DIGITS)

Str ==
    /\ looks < MaxLooks
    /\ streams = <<>>
    /\ Printed(str(gens, vals[Self]))

Next ==
    \/ \E j \in Held : Add(j)
    \/ \E j \in Held : Mul(j)
    \/ \E c \in Scalars : MulScalar(c)
    \/ MulOther
    \/ Invert
    \/ Neg
    \/ \E n \in Shifts : LShift(n)
    \/ \E n \in Shifts : RShift(n)
    \/ Produce
    \/ \E k \in 1..Len(streams) : Pull(k)
    \/ \E j \in Held : Eq(j)
    \/ \E j \in Held : Ne(j)
    \/ Str

Spec == Init /\ [][Next]_vars

SpecMixed == InitMixed /\ [][Next]_vars

(***************************************************************************)
(* What the properties speak of.                                           *)
(***************************************************************************)
\* the digits a stream g yields in heap h before it ends or fails, n at most
RECURSIVE Drain(_, _, _)
Drain(h, g, n) ==
    IF n = 0 THEN <<>>
    ELSE LET a == next(h, g) IN
         IF IsDigit(a.out) THEN <<a.out>> \o Drain(a.h, g, n - 1) ELSE <<>>

\* the first n digits of a fresh stream of v
FreshDigits(h, v, n) ==
    LET f == digit_factory(h, v) IN Drain(f.h, f.g, n)

\* digit k (from 0) of a sequence of digits padded with zeros
Padded(ds, k) == IF k < Len(ds) THEN ds[k + 1] ELSE 0

IsPrefix(s, t) == Len(s) <= Len(t) /\ \A k \in 1..Len(s) : s[k] = t[k]
Compatible(s, t) == IsPrefix(s, t) \/ IsPrefix(t, s)

RECURSIVE AddCarry(_, _, _, _)
AddCarry(xs, ys, p, k) ==
    IF k = 0 THEN 0
    ELSE (Padded(xs, k - 1) + Padded(ys, k - 1) + AddCarry(xs, ys, p, k - 1)) \div p
AddDigit(xs, ys, p, k) ==
    (Padded(xs, k) + Padded(ys, k) + AddCarry(xs, ys, p, k)) % p

RECURSIVE ConvSum(_, _, _, _)
ConvSum(xs, ys, k, i) ==
    IF i < 0 THEN 0
    ELSE Padded(xs, i) * Padded(ys, k - i) + ConvSum(xs, ys, k, i - 1)
RECURSIVE MulCarry(_, _, _, _)
MulCarry(xs, ys, p, k) ==
    IF k = 0 THEN 0
    ELSE (MulCarry(xs, ys, p, k - 1) + ConvSum(xs, ys, k - 1, k - 1)) \div p
MulDigit(xs, ys, p, k) ==
    (MulCarry(xs, ys, p, k) + ConvSum(xs, ys, k, k)) % p

Unobserved == streams = <<>> /\ looks = 0

(***************************************************************************)
(* C1.  Replay invariant: the streams taken from the factory of one value  *)
(* show the same digit at every position and end at the same position,     *)
(* whatever the other streams have pulled: of two such streams that did    *)
(* not fail, what the client saw of one is a prefix of what it saw of the  *)
(* other.                                                                  *)
(***************************************************************************)
Failed(out) == IF out = <<>> THEN FALSE ELSE out[Len(out)] = ERR

ReplayInvariant ==
    \A a \in 1..Len(streams), b \in 1..Len(streams) :
        (/\ streams[a].v = streams[b].v
         /\ ~Failed(streams[a].out)
         /\ ~Failed(streams[b].out)) =>
            Compatible(streams[a].out, streams[b].out)

(***************************************************************************)
(* C2.  A stream of add(x, y) never fails, and its digit at position k is  *)
(* (x_k + y_k + carry_k) mod base, with carry_0 = 0 and the carry of each  *)
(* position passed on to the next.                                         *)
(***************************************************************************)
AddDigits ==
    \A s \in 1..Len(streams) :
        LET d == streams[s].v
            out == streams[s].out
        IN  made[d].op = "add" =>
              LET xs == FreshDigits(gens, vals[made[d].a], MaxPull)
                  ys == FreshDigits(gens, vals[made[d].b], MaxPull)
              IN  \A k \in 1..Len(out) :
                     /\ out[k] # ERR
                     /\ IsDigit(out[k]) => out[k] = AddDigit(xs, ys, vals[d].p, k - 1)

(***************************************************************************)
(* C3.  A stream of multiply(x, y) never fails, and its digit at position  *)
(* k is (carry_k + sum of x_i * y_(k-i), i in 0..k) mod base.              *)
(***************************************************************************)
MulDigits ==
    \A s \in 1..Len(streams) :
        LET d == streams[s].v
            out == streams[s].out
        IN  made[d].op = "mul" =>
              LET xs == FreshDigits(gens, vals[made[d].a], MaxPull)
                  ys == FreshDigits(gens, vals[made[d].b], MaxPull)
              IN  \A k \in 1..Len(out) :
                     /\ out[k] # ERR
                     /\ IsDigit(out[k]) => out[k] = MulDigit(xs, ys, vals[d].p, k - 1)

(***************************************************************************)
(* C4.  x == y (p_adic_equal over DEFAULT_MAX_P_GITS digits) returns false *)
(* exactly when the zero-padded digits of fresh streams of x and y differ  *)
(* at a position below DEFAULT_MAX_P_GITS.                                 *)
(***************************************************************************)
EqualIffNoDifference ==
    [][ret'.op = "eq" =>
          LET xs == FreshDigits(gens, vals[ret'.a], ret'.n)
              ys == FreshDigits(gens, vals[ret'.b], ret'.n)
          IN  ret'.res = (\A k \in 0..(ret'.n - 1) : Padded(xs, k) = Padded(ys, k))]_vars

(***************************************************************************)
(* C5.  add and multiply of values of different bases raise MismatchedBase *)
(* at the call: no value is returned, no generator is created or advanced. *)
(* multiply by an operand that is neither an integer nor a p-adic raises   *)
(* UnsupportedOperand.                                                     *)
(***************************************************************************)
BaseErrors ==
    [][/\ (ret'.op \in {"add", "mul"} /\ vals[ret'.a].p # vals[ret'.b].p) =>
             /\ ~ret'.ok
             /\ ret'.err = "MismatchedBase"
             /\ UNCHANGED <<vals, made, gens, streams>>
       /\ ret'.op = "mulother" =>
             /\ ~ret'.ok
             /\ ret'.err = "UnsupportedOperand"
             /\ UNCHANGED <<vals, made>>]_vars

\* an addition of values of different bases has just been refused
BaseErrorsWitness ==
    /\ ret.op = "add"
    /\ vals[ret.a].p # vals[ret.b].p
    /\ ret.err = "MismatchedBase"

(***************************************************************************)
(* C6.  Additive inverse: every digit of a stream of add(negate(x), x) is  *)
(* 0, and add(negate(x), x) is prefix-equal to zero(base).                 *)
(***************************************************************************)
IsInverseSum(d) ==
    /\ made[d].op = "add"
    /\ made[made[d].a].op = "neg"
    /\ made[made[d].a].a = made[d].b

AdditiveInverse ==
    /\ \A s \in 1..Len(streams) :
          IsInverseSum(streams[s].v) =>
             \A k \in 1..Len(streams[s].out) :
                streams[s].out[k] = 0 \/ streams[s].out[k] = END
    /\ \A d \in Held :
          IsInverseSum(d) =>
             p_adic_equal(gens, vals[d], p_adic_zero(vals[d].p), DEFAULT_MAX_P_GITS).res

(***************************************************************************)
(* C7.  multiplyScalar(fromInteger(n, base), c) with 0 < c < base is       *)
(* prefix-equal to fromInteger(n * c, base); 3 times 4 in base 5 has the   *)
(* digits [2, 2].                                                          *)
(***************************************************************************)
ScalarProduct ==
    \A d \in Held :
        LET x == vals[made[d].a]
            c == made[d].n
        IN  (made[d].op = "mulscalar" /\ x.kind = "fromInt" /\ 0 < c /\ c < x.p) =>
              /\ p_adic_equal(gens, vals[d], p_adic_from_integer(x.n * c, x.p),
                              DEFAULT_MAX_P_GITS).res
              /\ (Unobserved /\ x.n = 3 /\ x.p = 5 /\ c = 4) =>
                    FreshDigits(gens, vals[d], DEFAULT_MAX_P_GITS) = <<2, 2>>

(***************************************************************************)
(* C8.  Shift round trip: shiftRight(shiftLeft(x, n), n) is prefix-equal   *)
(* to x every time they are compared, and shiftLeft(fromInteger(5, 3), 2)  *)
(* has the digits [0, 0, 2, 1].                                            *)
(***************************************************************************)
ShiftRoundTrip ==
    \A d \in Held :
        /\ (/\ made[d].op = "rshift"
            /\ made[d].n >= 0
            /\ made[made[d].a].op = "lshift"
            /\ made[made[d].a].n = made[d].n) =>
              p_adic_equal(gens, vals[d], vals[made[made[d].a].a],
                           DEFAULT_MAX_P_GITS).res
        /\ (/\ made[d].op = "lshift"
            /\ made[d].n = 2
            /\ vals[made[d].a] = p_adic_from_integer(5, 3)
            /\ Unobserved) =>
              FreshDigits(gens, vals[d], DEFAULT_MAX_P_GITS) = <<0, 0, 2, 1>>

(***************************************************************************)
(* C9.  str(x) pulls at most DEFAULT_MAX_P_GITS + 1 digits, puts the       *)
(* ellipsis exactly when the stream has a digit number                     *)
(* DEFAULT_MAX_P_GITS + 1, and renders fromInteger(5, 3) as "12 (base 3)". *)
(***************************************************************************)
FormatWindow ==
    [][ret'.op = "str" =>
          LET x == vals[ret'.a]
              ds == FreshDigits(gens, x, DEFAULT_MAX_P_GITS + 1)
          IN  /\ ret'.pulled <= DEFAULT_MAX_P_GITS + 1
              /\ (ret'.prefix = "...") = (Len(ds) = DEFAULT_MAX_P_GITS + 1)
              /\ x = p_adic_from_integer(5, 3) => ret'.text = "12 (base 3)"]_vars

(***************************************************************************)
(* C10.  == and != are complementary: after x == y has answered, x != y    *)
(* answers the opposite, and the other way round.                          *)
(***************************************************************************)
EqNeComplementary ==
    /\ ret.op = "eq" => ret.res # ne(gens, vals[ret.a], vals[ret.b]).res
    /\ ret.op = "ne" => ret.res # eq(gens, vals[ret.a], vals[ret.b]).res

====
